---- MODULE Spec2Model ----
(***************************************************************************)
(* Vehicle finite-state machine of simobility (simobility/core/vehicle.py) *)
(* driven by a simulation driver and synchronised with a movement engine.  *)
(*                                                                         *)
(* The generic StateMachine base class, the VehicleEngine and the Position *)
(* type live in sibling modules (state_machine.py, vehicle_engine.py,      *)
(* position.py); they are modelled from their documented contracts.        *)
(* Positions are points 0..MaxPos on a line; an engine travels one unit    *)
(* per tick toward its destination.                                        *)
(***************************************************************************)
EXTENDS Integers, Sequences, FiniteSets, TLC

VARIABLES state, engine, context, moving, dest, pos, route, call

vars == <<state, engine, context, moving, dest, pos, route, call>>

-----------------------------------------------------------------------------
(* Bounds *)

MaxPos == 2

Positions == 0..MaxPos
NoPos == 0 - 1
Keys == {"a", "b", "stop"}
Vals == {1, 2}
EmptyCtx == [k \in {} |-> 0]
Contexts == {EmptyCtx} \cup {[x \in {k} |-> v] : k \in Keys, v \in Vals}
EngineIds == {"e1", "e2"}
NoEngine == "none"
NoRoute == <<>>

-----------------------------------------------------------------------------
(* class States: the enum member names are the FSM states *)
States == {"offline", "idling", "moving_to"}

(* class StopReasons: the enum values *)
StopReasons == {"arrived", "change_dest", "unknown", "stop"}

NoReason == ""

(* The table with set_offline also allowed from moving_to *)
state_transitions_wide ==
    { [trigger |-> "set_idling", source |-> {"offline", "moving_to"}, dest |-> "idling"],
      [trigger |-> "set_offline", source |-> {"idling", "moving_to"}, dest |-> "offline"],
      [trigger |-> "set_moving_to", source |-> {"idling"}, dest |-> "moving_to"] }

(* The table with the enum value "moving" in place of the member moving_to *)
state_transitions_value ==
    { [trigger |-> "set_idling", source |-> {"offline", "moving_to"}, dest |-> "idling"],
      [trigger |-> "set_offline", source |-> {"idling"}, dest |-> "offline"],
      [trigger |-> "set_moving_to", source |-> {"idling"}, dest |-> "moving"] }

(* format: [trigger, source, destination] *)
state_transitions ==
    { [trigger |-> "set_idling", source |-> {"offline", "moving_to"}, dest |-> "idling"],
      [trigger |-> "set_offline", source |-> {"idling"}, dest |-> "offline"],
      [trigger |-> "set_moving_to", source |-> {"idling"}, dest |-> "moving_to"] }

Triggers == {t.trigger : t \in state_transitions}

-----------------------------------------------------------------------------
(* The vehicle together with its engine, as one record the methods          *)
(* transform.  err is the exception the running call has raised ("none"     *)
(* while it has not), fired the triggers executed by the call, recorded the *)
(* event records the call appended to the history and cmds the commands it  *)
(* issued to the engine.  The history is an append-only log that no method  *)
(* of the vehicle reads: it is represented by what each call appends to it. *)
(* steps lists, in the order the call executed them, the triggers fired,    *)
(* the assignments to self.context and the commands issued to the engine.   *)

Cur ==
    [state |-> state, engine |-> engine, context |-> context,
     moving |-> moving, dest |-> dest, pos |-> pos, route |-> route,
     err |-> "none", fired |-> <<>>, recorded |-> <<>>, cmds |-> <<>>,
     steps |-> <<>>]

Raise(m, e) == [m EXCEPT !.err = e]

(* Position.to_dict *)
to_dict(p) == [lat |-> 0, lon |-> p]

Abs(x) == IF x < 0 THEN 0 - x ELSE x

(* Route.traveled_distance(now): distance covered from the route's origin *)
traveled_distance(m) == Abs(m.pos - m.route[1])

(* StateMachine.on_state_changed: append the event record to the history *)
base_on_state_changed(m, event) == [m EXCEPT !.recorded = Append(@, event)]

(* on_state_changed that attaches the route's destination as the position *)
on_state_changed_dest(m, event) ==
    IF m.engine = NoEngine
    THEN Raise(m, "attribute_error")
    ELSE LET e1 == [event EXCEPT !.position =
                        to_dict(IF m.route # NoRoute THEN m.route[2] ELSE m.pos)]
             e2 == IF m.route # NoRoute
                   THEN [e1 EXCEPT !.origin = to_dict(m.route[1]),
                                   !.destination = to_dict(m.route[2]),
                                   !.traveled_distance = traveled_distance(m)]
                   ELSE e1
         IN  base_on_state_changed(m, e2)

(* Vehicle.on_state_changed *)
on_state_changed(m, event) ==
    IF m.engine = NoEngine
    THEN Raise(m, "attribute_error")
    ELSE LET e1 == [event EXCEPT !.position = to_dict(m.pos)]
             e2 == IF m.route # NoRoute
                   THEN [e1 EXCEPT !.origin = to_dict(m.route[1]),
                                   !.destination = to_dict(m.route[2]),
                                   !.traveled_distance = traveled_distance(m)]
                   ELSE e1
         IN  base_on_state_changed(m, e2)

(* StateMachine: the generated trigger methods set_<state> *)
apply(m, trigger, stop, kwargs) ==
    LET t == CHOOSE x \in state_transitions : x.trigger = trigger
    IN  IF m.state \notin t.source
        THEN Raise(m, "invalid_transition")
        ELSE on_state_changed(
                 [m EXCEPT !.state = t.dest, !.fired = Append(@, trigger),
                           !.steps = Append(@, trigger)],
                 [trigger |-> trigger, source |-> m.state, dest |-> t.dest,
                  stop |-> stop, kwargs |-> kwargs,
                  position |-> to_dict(NoPos), origin |-> to_dict(NoPos),
                  destination |-> to_dict(NoPos), traveled_distance |-> 0])

(* VehicleEngine.start_move *)
start_move(m, d) ==
    [m EXCEPT !.route = <<m.pos, d>>,
              !.dest = IF d # m.pos THEN d ELSE NoPos,
              !.moving = (d # m.pos),
              !.cmds = Append(@, "start_move"),
              !.steps = Append(@, "start_move")]

(* VehicleEngine.end_move *)
end_move(m) ==
    [m EXCEPT !.route = NoRoute, !.dest = NoPos, !.moving = FALSE,
              !.cmds = Append(@, "end_move"),
              !.steps = Append(@, "end_move")]

(* stop that ends the engine's movement before it fires the transition *)
stop_end_first(m, stop_reason, ctx) ==
    IF m.engine = NoEngine
    THEN Raise(m, "no_engine")
    ELSE IF m.state = "idling"
    THEN m
    ELSE LET reason == IF stop_reason = NoReason THEN "unknown" ELSE stop_reason
             c == IF ctx # EmptyCtx THEN ctx ELSE m.context
         IN  IF "stop" \in DOMAIN c
             THEN Raise(m, "type_error")
             ELSE LET m1 == apply(end_move(m), "set_idling", reason, c)
                  IN  IF m1.err # "none"
                      THEN m1
                      ELSE [m1 EXCEPT !.context = EmptyCtx,
                                      !.steps = Append(@, "clear_context")]

(* stop that prefers the stored context to the supplied one *)
stop_stored_first(m, stop_reason, ctx) ==
    IF m.engine = NoEngine
    THEN Raise(m, "no_engine")
    ELSE IF m.state = "idling"
    THEN m
    ELSE LET reason == IF stop_reason = NoReason THEN "unknown" ELSE stop_reason
             c == IF m.context # EmptyCtx THEN m.context ELSE ctx
         IN  IF "stop" \in DOMAIN c
             THEN Raise(m, "type_error")
             ELSE LET m1 == apply(m, "set_idling", reason, c)
                  IN  IF m1.err # "none"
                      THEN m1
                      ELSE end_move([m1 EXCEPT !.context = EmptyCtx,
                                               !.steps = Append(@, "clear_context")])

(* stop that leaves the stored context in place *)
stop_keep_context(m, stop_reason, ctx) ==
    IF m.engine = NoEngine
    THEN Raise(m, "no_engine")
    ELSE IF m.state = "idling"
    THEN m
    ELSE LET reason == IF stop_reason = NoReason THEN "unknown" ELSE stop_reason
             c == IF ctx # EmptyCtx THEN ctx ELSE m.context
         IN  IF "stop" \in DOMAIN c
             THEN Raise(m, "type_error")
             ELSE LET m1 == apply(m, "set_idling", reason, c)
                  IN  IF m1.err # "none"
                      THEN m1
                      ELSE end_move(m1)

(* stop that does not command the engine to end the movement *)
stop_no_end_move(m, stop_reason, ctx) ==
    IF m.engine = NoEngine
    THEN Raise(m, "no_engine")
    ELSE IF m.state = "idling"
    THEN m
    ELSE LET reason == IF stop_reason = NoReason THEN "unknown" ELSE stop_reason
             c == IF ctx # EmptyCtx THEN ctx ELSE m.context
         IN  IF "stop" \in DOMAIN c
             THEN Raise(m, "type_error")
             ELSE LET m1 == apply(m, "set_idling", reason, c)
                  IN  IF m1.err # "none"
                      THEN m1
                      ELSE [m1 EXCEPT !.context = EmptyCtx,
                                      !.steps = Append(@, "clear_context")]

(* stop without the test for an idling vehicle *)
stop_always(m, stop_reason, ctx) ==
    IF m.engine = NoEngine
    THEN Raise(m, "no_engine")
    ELSE LET reason == IF stop_reason = NoReason THEN "unknown" ELSE stop_reason
             c == IF ctx # EmptyCtx THEN ctx ELSE m.context
         IN  IF "stop" \in DOMAIN c
             THEN Raise(m, "type_error")
             ELSE LET m1 == apply(m, "set_idling", reason, c)
                  IN  IF m1.err # "none"
                      THEN m1
                      ELSE end_move([m1 EXCEPT !.context = EmptyCtx,
                                               !.steps = Append(@, "clear_context")])

(* Vehicle.stop(stop_reason, **context) *)
stop(m, stop_reason, ctx) ==
    IF m.engine = NoEngine
    THEN Raise(m, "no_engine")
    ELSE IF m.state = "idling"
    THEN m
    ELSE LET reason == IF stop_reason = NoReason THEN "unknown" ELSE stop_reason
             c == IF ctx # EmptyCtx THEN ctx ELSE m.context
         IN  IF "stop" \in DOMAIN c
             THEN Raise(m, "type_error")
             ELSE LET m1 == apply(m, "set_idling", reason, c)
                  IN  IF m1.err # "none"
                      THEN m1
                      ELSE end_move([m1 EXCEPT !.context = EmptyCtx,
                                               !.steps = Append(@, "clear_context")])

(* destination that reports no destination while the engine is moving *)
destination_none(m) == NoPos

(* Vehicle.destination *)
destination(m) == IF m.engine # NoEngine THEN m.dest ELSE NoPos

(* the redirect's stop with the context passed as keyword arguments *)
stop_change_kwargs(m, ctx) == stop(m, "change_dest", ctx)

(* self.stop(StopReasons.change, context) in move_to: stop accepts one     *)
(* positional argument and is handed two, which raises TypeError           *)
stop_change(m, ctx) == Raise(m, "type_error")

(* move_to that fires set_moving_to without storing the context *)
move_to_nostore(m, d, ctx) ==
    IF m.engine = NoEngine
    THEN Raise(m, "no_engine")
    ELSE LET m1 == IF m.moving
                   THEN IF d # destination(m)
                        THEN LET s == stop_change(m, ctx)
                             IN  IF s.err # "none" THEN s ELSE start_move(s, d)
                        ELSE m
                   ELSE start_move(m, d)
         IN  IF m1.err # "none"
             THEN m1
             ELSE IF m1.moving /\ m1.state = "idling"
                  THEN apply(m1, "set_moving_to", NoReason, ctx)
                  ELSE m1

(* Vehicle.move_to(destination, **context) *)
move_to(m, d, ctx) ==
    IF m.engine = NoEngine
    THEN Raise(m, "no_engine")
    ELSE LET m1 == IF m.moving
                   THEN IF d # destination(m)
                        THEN LET s == stop_change(m, ctx)
                             IN  IF s.err # "none" THEN s ELSE start_move(s, d)
                        ELSE m
                   ELSE start_move(m, d)
         IN  IF m1.err # "none"
             THEN m1
             ELSE IF m1.moving /\ m1.state = "idling"
                  THEN apply([m1 EXCEPT !.context = ctx,
                                        !.steps = Append(@, "store_context")],
                             "set_moving_to", NoReason, ctx)
                  ELSE m1

(* step that ends the trip whether or not the engine is still moving *)
step_eager(m) ==
    IF m.engine = NoEngine
    THEN Raise(m, "no_engine")
    ELSE IF m.state = "moving_to"
    THEN stop(m, "arrived", m.context)
    ELSE IF m.state = "idling" /\ m.moving
    THEN Raise(m, "undefined_state")
    ELSE m

(* step that repairs an idling vehicle whose engine is moving *)
step_repair(m) ==
    IF m.engine = NoEngine
    THEN Raise(m, "no_engine")
    ELSE IF m.state = "moving_to" /\ ~m.moving
    THEN stop(m, "arrived", m.context)
    ELSE IF m.state = "idling" /\ m.moving
    THEN apply(m, "set_moving_to", NoReason, m.context)
    ELSE m

(* step without the engine check *)
step_unchecked(m) ==
    IF m.state = "moving_to" /\ ~m.moving /\ m.engine # NoEngine
    THEN stop(m, "arrived", m.context)
    ELSE IF m.state = "idling" /\ m.moving
    THEN Raise(m, "undefined_state")
    ELSE m

(* Vehicle.step() *)
step(m) ==
    IF m.engine = NoEngine
    THEN Raise(m, "no_engine")
    ELSE IF m.state = "moving_to" /\ ~m.moving
    THEN stop(m, "arrived", m.context)
    ELSE IF m.state = "idling" /\ m.moving
    THEN Raise(m, "undefined_state")
    ELSE m

(* install_engine that replaces an installed engine *)
install_engine_replace(m, e) ==
    IF m.engine # NoEngine
    THEN [m EXCEPT !.engine = e]
    ELSE apply([m EXCEPT !.engine = e], "set_idling", NoReason, m.context)

(* Vehicle.install_engine(engine) *)
install_engine(m, e) ==
    IF m.engine # NoEngine
    THEN Raise(m, "already_installed")
    ELSE apply([m EXCEPT !.engine = e], "set_idling", NoReason, m.context)

-----------------------------------------------------------------------------
(* Vehicle.__init__ *)
Init ==
    /\ state = "offline"
    /\ engine = NoEngine
    /\ context = EmptyCtx
    /\ moving = FALSE
    /\ dest = NoPos
    /\ pos = 0
    /\ route = NoRoute
    /\ call = [op |-> "new", arg |-> "", d |-> NoPos, ctx |-> EmptyCtx, err |-> "none",
               fired |-> <<>>, recorded |-> <<>>, cmds |-> <<>>, steps |-> <<>>]

(* The state a call leaves behind, with the record of the call: the method *)
(* called, the arguments passed, the exception raised, the                 *)
(* triggers executed, the events recorded, the engine commands issued and  *)
(* the order of the steps                                                  *)
Return(m, op, arg, d, ctx) ==
    /\ state' = m.state
    /\ engine' = m.engine
    /\ context' = m.context
    /\ moving' = m.moving
    /\ dest' = m.dest
    /\ pos' = m.pos
    /\ route' = m.route
    /\ call' = [op |-> op, arg |-> arg, d |-> d, ctx |-> ctx, err |-> m.err,
                fired |-> m.fired, recorded |-> m.recorded, cmds |-> m.cmds,
                steps |-> m.steps]

(* Engines are interchangeable: the first one installed is named e1 *)
InstallEngine ==
    /\ \E e \in (IF engine = NoEngine THEN {"e1"} ELSE EngineIds) :
           Return(install_engine(Cur, e), "install_engine", e, NoPos, EmptyCtx)

MoveTo ==
    /\ \E d \in Positions, c \in Contexts :
           Return(move_to(Cur, d, c), "move_to", "", d, c)

Stop ==
    /\ \E r \in StopReasons \cup {NoReason}, c \in Contexts :
           Return(stop(Cur, r, c), "stop", r, NoPos, c)

Step ==
    /\ Return(step(Cur), "step", "", NoPos, EmptyCtx)

Trigger ==
    /\ \E t \in Triggers :
           Return(apply(Cur, t, NoReason, EmptyCtx), t, "", NoPos, EmptyCtx)

(* The engine advances one unit toward its destination as the clock ticks *)
EngineTick ==
    /\ engine # NoEngine
    /\ moving
    /\ LET p == IF dest > pos THEN pos + 1 ELSE pos - 1
       IN  /\ pos' = p
           /\ moving' = (p # dest)
           /\ dest' = IF p # dest THEN dest ELSE NoPos
    /\ call' = [op |-> "tick", arg |-> "", d |-> NoPos, ctx |-> EmptyCtx, err |-> "none",
                fired |-> <<>>, recorded |-> <<>>, cmds |-> <<>>, steps |-> <<>>]
    /\ UNCHANGED <<state, engine, context, route>>

Next ==
    \/ InstallEngine
    \/ MoveTo
    \/ Stop
    \/ Step
    \/ Trigger
    \/ EngineTick

Spec == Init /\ [][Next]_vars

(* The vehicle driven through its four operations only *)
NextOps ==
    \/ InstallEngine
    \/ MoveTo
    \/ Stop
    \/ Step
    \/ EngineTick

SpecOps == Init /\ [][NextOps]_vars

(* Vehicle.set_offline() *)
SetOffline ==
    Return(apply(Cur, "set_offline", NoReason, EmptyCtx), "set_offline", "", NoPos, EmptyCtx)

(* The four operations and set_offline *)
NextOffline ==
    \/ InstallEngine
    \/ MoveTo
    \/ Stop
    \/ Step
    \/ SetOffline
    \/ EngineTick

SpecOffline == Init /\ [][NextOffline]_vars

(* The driver calls step on every tick and a moving engine keeps advancing *)
SpecLive == Init /\ [][NextOps]_vars /\ WF_vars(Step) /\ WF_vars(EngineTick)

TypeOK ==
    /\ state \in States
    /\ engine \in EngineIds \cup {NoEngine}
    /\ context \in Contexts
    /\ moving \in BOOLEAN
    /\ dest \in Positions \cup {NoPos}
    /\ pos \in Positions

-----------------------------------------------------------------------------
(* Properties *)

DomainOps == {"move_to", "stop", "step"}

(* C1: a trigger changes the state only from a state of its source set in  *)
(* the table (set_idling from offline or moving_to, set_offline from       *)
(* idling, set_moving_to from idling) and then to the table's destination; *)
(* from any other state it fails with an invalid-transition error and the  *)
(* state is unchanged.                                                     *)
C1_TriggerTable ==
    [][ call'.op \in {"set_idling", "set_offline", "set_moving_to"} =>
          LET src == CASE call'.op = "set_idling" -> {"offline", "moving_to"}
                       [] call'.op = "set_offline" -> {"idling"}
                       [] call'.op = "set_moving_to" -> {"idling"}
              dst == CASE call'.op = "set_idling" -> "idling"
                       [] call'.op = "set_offline" -> "offline"
                       [] call'.op = "set_moving_to" -> "moving_to"
          IN  IF state \in src
              THEN state' = dst /\ call'.err # "invalid_transition"
              ELSE /\ call'.err = "invalid_transition"
                   /\ state' = state
                   /\ call'.fired = <<>> ]_vars

C1_Witness ==
    /\ call.op = "set_offline"
    /\ call.err = "invalid_transition"
    /\ state = "moving_to"

(* C2: a vehicle is created offline with no engine and an empty context,   *)
(* and after any sequence of calls, failing or not, its state is one of    *)
(* offline, idling, moving_to.                                             *)
C2_StateDomain ==
    /\ state \in {"offline", "idling", "moving_to"}
    /\ call.op = "new" =>
          state = "offline" /\ engine = NoEngine /\ context = EmptyCtx

C2_Witness ==
    /\ state = "moving_to"
    /\ call.op = "move_to"
    /\ call.err = "type_error"

(* C3: while no engine is installed, move_to, stop and step fail with a    *)
(* no-engine error and leave the state, the stored context and the event   *)
(* history unchanged.                                                      *)
C3_NoEngine ==
    [][ (engine = NoEngine /\ call'.op \in DomainOps) =>
          /\ call'.err = "no_engine"
          /\ state' = state
          /\ context' = context
          /\ engine' = NoEngine
          /\ call'.fired = <<>>
          /\ call'.recorded = <<>>
          /\ call'.cmds = <<>> ]_vars

C3_Witness ==
    /\ engine = NoEngine
    /\ state = "offline"
    /\ context = EmptyCtx
    /\ call.op = "step"
    /\ call.err = "no_engine"

(* C4: the first install_engine stores the engine and leaves the state     *)
(* idling; every later install_engine fails with an already-installed      *)
(* error and changes nothing; an installed engine is never removed or      *)
(* replaced.                                                               *)
C4_InstallOnce ==
    [][ /\ call'.op = "install_engine" =>
            IF engine = NoEngine
            THEN /\ engine' = call'.arg
                 /\ state' = "idling"
                 /\ (state = "offline" => call'.err = "none")
            ELSE /\ call'.err = "already_installed"
                 /\ UNCHANGED <<state, engine, context, moving, dest, pos, route>>
                 /\ call'.fired = <<>>
                 /\ call'.recorded = <<>>
                 /\ call'.cmds = <<>>
        /\ engine # NoEngine => engine' = engine ]_vars

C4_Witness ==
    /\ call.op = "install_engine"
    /\ call.err = "already_installed"
    /\ call.arg = "e2"
    /\ engine = "e1"
    /\ state = "moving_to"

(* C5: move_to(D) on a vehicle in moving_to whose engine is moving toward  *)
(* D fires no transition, issues no engine command, and leaves the state,  *)
(* the stored context and the engine's destination unchanged.              *)
C5_SameDestination ==
    [][ (/\ call'.op = "move_to"
         /\ state = "moving_to"
         /\ engine # NoEngine
         /\ moving
         /\ call'.d = dest) =>
          /\ call'.err = "none"
          /\ call'.fired = <<>>
          /\ call'.recorded = <<>>
          /\ call'.cmds = <<>>
          /\ state' = "moving_to"
          /\ context' = context
          /\ moving'
          /\ dest' = call'.d ]_vars

C5_Witness ==
    /\ call.op = "move_to"
    /\ call.err = "none"
    /\ call.fired = <<>>
    /\ call.cmds = <<>>
    /\ state = "moving_to"
    /\ moving
    /\ dest = call.d
    /\ context # call.ctx

(* A move_to toward a destination other than the one the engine is moving  *)
(* to, on a vehicle in moving_to                                           *)
Redirect ==
    /\ call'.op = "move_to"
    /\ state = "moving_to"
    /\ engine # NoEngine
    /\ moving
    /\ call'.d # dest

(* C6: a redirect completes without error, records a set_idling event with *)
(* reason change_dest and then starts the engine toward the new            *)
(* destination, so that the engine is moving with that destination.        *)
C6_Redirect ==
    [][ (Redirect /\ call'.d # pos) =>
          /\ call'.err = "none"
          /\ \E i \in 1..Len(call'.recorded) :
                /\ call'.recorded[i].trigger = "set_idling"
                /\ call'.recorded[i].stop = "change_dest"
          /\ Len(call'.cmds) >= 1
          /\ call'.cmds[Len(call'.cmds)] = "start_move"
          /\ moving'
          /\ dest' = call'.d ]_vars

C8_Arrival ==
    [][ (/\ call'.op = "step"
         /\ engine # NoEngine
         /\ state = "moving_to"
         /\ ~moving) =>
          /\ state' = "idling"
          /\ Len(call'.recorded) = 1
          /\ call'.recorded[1].trigger = "set_idling"
          /\ call'.recorded[1].stop = "arrived"
          /\ call'.recorded[1].kwargs = context
          /\ context' = EmptyCtx ]_vars

(* C9: step on an idling vehicle whose engine is moving fails with the     *)
(* undefined-state error and repairs nothing: state, context and engine    *)
(* are unchanged and no event is recorded.                                 *)
C9_UndefinedState ==
    [][ (/\ call'.op = "step"
         /\ state = "idling"
         /\ moving) =>
          /\ call'.err = "undefined_state"
          /\ state' = "idling"
          /\ context' = context
          /\ call'.fired = <<>>
          /\ call'.recorded = <<>>
          /\ call'.cmds = <<>>
          /\ UNCHANGED <<engine, moving, dest, pos, route>> ]_vars

C9_Witness ==
    /\ call.op = "step"
    /\ call.err = "undefined_state"
    /\ state = "idling"
    /\ moving

C11_OnlyInstallLeavesOffline ==
    [][ (state = "offline" /\ call'.op \in DomainOps) => state' = "offline" ]_vars

(* C12: the position attached to every recorded event is the engine's      *)
(* current position, serialised, at the moment of the transition.          *)
C12_EventPosition ==
    [][ \A i \in 1..Len(call'.recorded) :
            /\ call'.recorded[i].position = to_dict(pos)
            /\ call'.recorded[i].position.lon = pos' ]_vars

C12_Witness ==
    /\ call.op = "stop"
    /\ Len(call.recorded) = 1
    /\ call.recorded[1].position.lon = 1
    /\ call.recorded[1].origin.lon = 0
    /\ call.recorded[1].destination.lon = 2
    /\ pos = 1

(* A call of stop on a vehicle with an engine that is not idling, made by  *)
(* the driver or by step on arrival                                        *)
StopCall ==
    /\ engine # NoEngine
    /\ \/ call'.op = "stop" /\ state # "idling"
       \/ call'.op = "step" /\ state = "moving_to" /\ ~moving

(* C13: a stop that performs a transition fires set_idling with its hook   *)
(* first, then clears the stored context, then commands end_move, so the   *)
(* hook still sees the route; when the transition fails the context is not *)
(* cleared and end_move is not issued.                                     *)
C13_StopOrder ==
    [][ StopCall =>
          IF call'.err = "none"
          THEN /\ call'.steps = <<"set_idling", "clear_context", "end_move">>
               /\ Len(call'.recorded) = 1
               /\ route # NoRoute =>
                     /\ call'.recorded[1].origin = to_dict(route[1])
                     /\ call'.recorded[1].destination = to_dict(route[2])
               /\ context' = EmptyCtx
               /\ route' = NoRoute
          ELSE /\ call'.steps = <<>>
               /\ call'.cmds = <<>>
               /\ context' = context
               /\ UNCHANGED <<state, moving, dest, pos, route>> ]_vars

C13_Witness ==
    /\ call.op = "stop"
    /\ call.steps = <<"set_idling", "clear_context", "end_move">>
    /\ call.recorded[1].source = "moving_to"
    /\ call.recorded[1].destination.lon = 1
    /\ route = NoRoute
    /\ context = EmptyCtx

(* A call of stop by the driver that performed a transition *)
StopTransition ==
    /\ call'.op = "stop"
    /\ Len(call'.recorded) = 1

(* C14 as stated: the set_idling event of a stop carries the stop reason   *)
(* (unknown when none is supplied) and the key-wise merge of the supplied  *)
(* and the stored context, a supplied value winning for a shared key       *)
(* (stated for stored contexts without the key stop, which is the key of   *)
(* the stop reason).                                                       *)
C14_MergedContext ==
    [][ (StopTransition /\ "stop" \notin DOMAIN context) =>
          /\ call'.recorded[1].stop =
                 (IF call'.arg = NoReason THEN "unknown" ELSE call'.arg)
          /\ call'.recorded[1].kwargs =
                 [k \in DOMAIN call'.ctx \cup DOMAIN context |->
                      IF k \in DOMAIN call'.ctx THEN call'.ctx[k] ELSE context[k]] ]_vars

(* C14 amended: the set_idling event of a stop carries the stop reason     *)
(* (unknown when none is supplied) and the supplied context when that is   *)
(* not empty, otherwise the stored context; no stored key is carried over  *)
(* next to a supplied context.                                             *)
C14_SuppliedOrStored ==
    [][ StopTransition =>
          /\ call'.recorded[1].trigger = "set_idling"
          /\ call'.recorded[1].stop =
                 (IF call'.arg = NoReason THEN "unknown" ELSE call'.arg)
          /\ call'.recorded[1].kwargs =
                 (IF call'.ctx # EmptyCtx THEN call'.ctx ELSE context) ]_vars

C14_Witness ==
    /\ call.op = "stop"
    /\ call.arg = NoReason
    /\ Len(call.recorded) = 1
    /\ call.recorded[1].source = "moving_to"
    /\ call.recorded[1].stop = "unknown"
    /\ call.ctx # EmptyCtx
    /\ call.recorded[1].kwargs = call.ctx

C16_StartMove ==
    [][ (/\ call'.op = "move_to"
         /\ state = "idling"
         /\ engine # NoEngine
         /\ ~moving) =>
          /\ call'.err = "none"
          /\ call'.cmds = <<"start_move">>
          /\ route' = <<pos, call'.d>>
          /\ IF moving'
             THEN /\ call'.fired = <<"set_moving_to">>
                  /\ Len(call'.recorded) = 1
                  /\ call'.recorded[1].trigger = "set_moving_to"
                  /\ call'.recorded[1].kwargs = call'.ctx
                  /\ state' = "moving_to"
                  /\ context' = call'.ctx
                  /\ dest' = call'.d
             ELSE /\ call'.fired = <<>>
                  /\ call'.recorded = <<>>
                  /\ state' = "idling"
                  /\ context' = context ]_vars

C16_Witness ==
    /\ call.op = "move_to"
    /\ call.fired = <<"set_moving_to">>
    /\ call.cmds = <<"start_move">>
    /\ call.ctx # EmptyCtx
    /\ context = call.ctx
    /\ state = "moving_to"
    /\ moving
    /\ dest = call.d

(* C17: driven through install_engine, move_to, stop and step, the stored  *)
(* context is empty whenever the state is idling or offline; it becomes    *)
(* non-empty only in a move_to that begins a move, where it is the context *)
(* supplied to that move_to, and it changes otherwise only by being        *)
(* cleared.                                                                *)
C17_TransientContext ==
    /\ [](state \in {"idling", "offline"} => context = EmptyCtx)
    /\ [][ context' # context =>
              \/ context' = EmptyCtx
              \/ /\ call'.op = "move_to"
                 /\ context' = call'.ctx
                 /\ state = "idling"
                 /\ state' = "moving_to" ]_vars

C17_Witness ==
    /\ call.op = "step"
    /\ Len(call.recorded) = 1
    /\ call.recorded[1].kwargs # EmptyCtx
    /\ state = "idling"
    /\ context = EmptyCtx

(* C18: driven through install_engine, move_to, stop and step, the vehicle *)
(* is never idling while its engine is moving, and step never raises the   *)
(* undefined-state error.                                                  *)
C18_NeverDesynchronized ==
    /\ ~(state = "idling" /\ moving)
    /\ call.err # "undefined_state"

C18_Witness ==
    /\ call.op = "step"
    /\ call.err = "none"
    /\ call.steps = <<>>
    /\ state = "idling"
    /\ ~moving
    /\ pos = 2

(* C19: driven through install_engine, move_to, stop, step and             *)
(* set_offline, whenever the engine is moving the state is moving_to.      *)
C19_MovingImpliesMovingTo ==
    moving => state = "moving_to"

(* C20: if from some point on no move_to is issued, then with step called  *)
(* on every tick and the engine advancing, a vehicle in moving_to          *)
(* eventually is idling with an empty context and a non-moving engine, and *)
(* stays so.                                                               *)
C20_TripEnds ==
    (<>[][call'.op # "move_to"]_vars) =>
        [](state = "moving_to" =>
              <>[](state = "idling" /\ context = EmptyCtx /\ ~moving))
====
